---- MODULE Spec2Model ----
(***************************************************************************)
(* Model of the CO2MINI sensor driver (src/sensor/CO2MINI.py and           *)
(* src/sensor/CO2MINI_HidrawAdjust.py): construction (open, feature-report *)
(* ioctl, thread start), the polling thread _co2_worker with its weak      *)
(* reference, read_data with its checksum test, and the three accessors.   *)
(*                                                                         *)
(* Python sequences are 0-indexed, TLA+ sequences 1-indexed: data[k] of    *)
(* the source is data[k+1] here.                                           *)
(***************************************************************************)
EXTENDS Integers, Sequences, FiniteSets, TLC

(* ------------------------------ bounds --------------------------------- *)
\* largest number of strong references held outside the polling thread
MaxRefs == 2
\* the count of device reads saturates here
MaxReads == 2
\* the count of consecutive failed polls saturates here
MaxFails == 2
\* the count of get_co2 calls since the last accepted CO2 read saturates here
MaxCalls == 2

(* ----------------------------- constants ------------------------------- *)
CO2METER_CO2 == 80
CO2METER_TEMP == 66
CO2METER_HUM == 68
KnownOps == {CO2METER_CO2, CO2METER_TEMP, CO2METER_HUM}

Min(a, b) == IF a < b THEN a ELSE b

(* ------------------------- device read results ------------------------- *)
\* data[:n] of Python: the first n elements, fewer when the list is shorter
Take(s, n) == SubSeq(s, 1, Min(n, Len(s)))

\* op, byte1, byte2, then the checksum byte and the terminator a sender
\* computes, then the three reserved bytes
WellFormed(op, b1, b2) == <<op, b1, b2, (op + b1 + b2) % 256, 13, 0, 0, 0>>

\* the frame of the scenario (CO2 = 0x0194), a CO2 and a temperature frame
\* whose byte sums exceed 8 bits, and a frame of an unknown operation code;
\* no humidity frame: "not implemented by all devices" (CO2MINI.py line 102)
ValidFrames ==
  {WellFormed(CO2METER_CO2, 1, 148), WellFormed(CO2METER_CO2, 255, 255),
   WellFormed(CO2METER_TEMP, 18, 193), WellFormed(110, 0, 7)}

\* the scenario frame with the wrong checksum byte 0x95, and a frame whose
\* checksum byte is right and whose terminator is not 0x0D
CorruptFrames ==
  {<<CO2METER_CO2, 1, 148, 149, 13, 0, 0, 0>>,
   <<CO2METER_CO2, 2, 88, 170, 0, 0, 0, 0>>}

Frames == ValidFrames \cup CorruptFrames

\* reads that return fewer than 8 bytes: the prefixes of the scenario frame
ShortReads == {Take(WellFormed(CO2METER_CO2, 1, 148), n) : n \in 0..7}

\* what self._file.read(8) can do: raise (ok = FALSE) or return bytes
DeviceResults ==
  {[ok |-> FALSE, bytes |-> <<>>]}
    \cup {[ok |-> TRUE, bytes |-> b] : b \in Frames \cup ShortReads}

(* ------------------------------ read_data ------------------------------ *)
RECURSIVE SumSeq(_)
SumSeq(s) == IF s = <<>> THEN 0 ELSE s[1] + SumSeq(Tail(s))

RECURSIVE BitOr(_, _)
BitOr(a, b) ==
  IF a = 0 THEN b
  ELSE IF b = 0 THEN a
  ELSE (IF a % 2 = 1 \/ b % 2 = 1 THEN 1 ELSE 0) + 2 * BitOr(a \div 2, b \div 2)

\* data[4] raises IndexError on a list of fewer than 5 elements
IndexError(data) == Len(data) < 5

\* mutant: `and` where the source has `or`
ChecksumError_And(data) ==
  data[5] # 13 /\ (SumSeq(Take(data, 3)) % 256) # data[4]

\* the condition of the if at CO2MINI.py line 67
ChecksumError(data) ==
  data[5] # 13 \/ (SumSeq(Take(data, 3)) % 256) # data[4]

\* mutant: the shift is by 16 bits
Val_Shift16(data) == BitOr(data[2] * 65536, data[3])

\* mutant: the shift is missing
Val_NoShift(data) == BitOr(data[2], data[3])

\* val = data[1] << 8 | data[2]
Val(data) == BitOr(data[2] * 256, data[3])

\* mutant: operation codes that are not keys yet are dropped
SetItem_KnownOnly(vals, op, val) ==
  IF op \in DOMAIN vals THEN [vals EXCEPT ![op] = val] ELSE vals

\* mutant: the two bytes are stored one after the other and a reader can see
\* the new high byte next to the old low byte
SetItem_Torn(vals, op, val) ==
  [k \in DOMAIN vals \cup {op} |->
     IF k # op THEN vals[k]
     ELSE IF op \in DOMAIN vals THEN (val \div 256) * 256 + (vals[op] % 256)
     ELSE val]

\* mutant: the map is replaced by a one-entry map
SetItem_Replace(vals, op, val) == [k \in {op} |-> val]

\* self._values[operation] = val
SetItem(vals, op, val) ==
  [k \in DOMAIN vals \cup {op} |-> IF k = op THEN val ELSE vals[k]]

\* the body of read_data once self._file.read(8) has returned data
ReadData(vals, data) ==
  IF IndexError(data) THEN [values |-> vals, ret |-> FALSE]
  ELSE IF ChecksumError(data) THEN [values |-> vals, ret |-> TRUE]
  ELSE [values |-> SetItem(vals, data[1], Val(data)), ret |-> TRUE]

(* ------------------------------ accessors ------------------------------ *)
\* self._values[k]: raises KeyError when k is not a key
GetItem(vals, k) ==
  IF k \in DOMAIN vals THEN [raised |-> FALSE, val |-> vals[k]]
  ELSE [raised |-> TRUE, val |-> 0]

\* results are exact fractions num/den; the Python floats are not modelled
Result(call, item, num, den) ==
  [call |-> call, raised |-> item.raised,
   num |-> IF item.raised THEN 0 ELSE num,
   den |-> den]

get_co2(vals) ==
  LET it == GetItem(vals, CO2METER_CO2) IN Result("get_co2", it, it.val, 1)

\* v / 16.0 - 273.15 = (100 v - 437040) / 1600
get_temperature(vals) ==
  LET it == GetItem(vals, CO2METER_TEMP)
  IN Result("get_temperature", it, 100 * it.val - 437040, 1600)

\* v / 100.0
get_humidity(vals) ==
  LET it == GetItem(vals, CO2METER_HUM) IN Result("get_humidity", it, it.val, 100)

BoolResult(b) ==
  [call |-> "read_data", raised |-> FALSE, num |-> IF b THEN 1 ELSE 0, den |-> 1]

NoResult == [call |-> "none", raised |-> FALSE, num |-> 0, den |-> 1]

(* ----------------- the class of CO2MINI_HidrawAdjust.py ---------------- *)
\* mutant: the sum is compared without `& 0xFF`
ChecksumErrorAdj_NoMask(data) ==
  data[5] # 13 \/ SumSeq(Take(data, 3)) # data[4]

\* the condition of the if at CO2MINI_HidrawAdjust.py line 46
ChecksumErrorAdj(data) ==
  data[5] # 13 \/ (SumSeq(Take(data, 3)) % 256) # data[4]

\* val = data[1] << 8 | data[2] (CO2MINI_HidrawAdjust.py line 50)
ValAdj(data) == BitOr(data[2] * 256, data[3])

\* read_data of CO2MINI_HidrawAdjust.py once the read has returned data
ReadDataAdj(vals, data) ==
  IF IndexError(data) THEN [values |-> vals, ret |-> FALSE]
  ELSE IF ChecksumErrorAdj(data) THEN [values |-> vals, ret |-> TRUE]
  ELSE [values |-> SetItem(vals, data[1], ValAdj(data)), ret |-> TRUE]

get_co2Adj(vals) ==
  LET it == GetItem(vals, CO2METER_CO2) IN Result("get_co2", it, it.val, 1)

get_temperatureAdj(vals) ==
  LET it == GetItem(vals, CO2METER_TEMP)
  IN Result("get_temperature", it, 100 * it.val - 437040, 1600)

get_humidityAdj(vals) ==
  LET it == GetItem(vals, CO2METER_HUM) IN Result("get_humidity", it, it.val, 100)

\* self._values of CO2MINI_HidrawAdjust.py line 27
InitValuesAdj == [k \in {CO2METER_CO2, CO2METER_TEMP, CO2METER_HUM} |-> 0]

(* ------------------------- the feature report -------------------------- *)
\* HIDIOCSFEATURE_9 = 0xC0094806 of each file, as its four bytes
HIDIOCSFEATURE_9 == <<192, 9, 72, 6>>
HIDIOCSFEATURE_9Adj == <<192, 9, 72, 6>>

\* CO2MINI._key of each file
Key == <<196, 198, 192, 146, 64, 35, 220, 150>>
KeyAdj == <<196, 198, 192, 146, 64, 35, 220, 150>>

\* the request and the bytes of [0] + self._key handed to fcntl.ioctl
SetReport == [request |-> HIDIOCSFEATURE_9, payload |-> <<0>> \o Key]
SetReportAdj == [request |-> HIDIOCSFEATURE_9Adj, payload |-> <<0>> \o KeyAdj]

(* --------------------------- the class in use -------------------------- *)
Other(v) == IF v = "plain" THEN "adjust" ELSE "plain"

ReadDataOf(v, vals, data) ==
  IF v = "plain" THEN ReadData(vals, data) ELSE ReadDataAdj(vals, data)

get_co2Of(v, vals) == IF v = "plain" THEN get_co2(vals) ELSE get_co2Adj(vals)

get_temperatureOf(v, vals) ==
  IF v = "plain" THEN get_temperature(vals) ELSE get_temperatureAdj(vals)

get_humidityOf(v, vals) ==
  IF v = "plain" THEN get_humidity(vals) ELSE get_humidityAdj(vals)

SetReportOf(v) == IF v = "plain" THEN SetReport ELSE SetReportAdj

\* where an exception of the first open/ioctl takes __init__ of class v
FirstAttemptRaisesOf(v) == IF v = "plain" THEN "failed" ELSE "find"

(* -------------------------------- state -------------------------------- *)
VARIABLES
  variant,      \* "plain": CO2MINI.py, "adjust": CO2MINI_HidrawAdjust.py
  ctor,         \* position of the constructor's caller inside __init__
  device,       \* the path passed to open: "given", "found" or "None"
  openCalls,    \* calls of open made by __init__
  errs,         \* open or ioctl calls of __init__ that raised
  handle,       \* self._file: 0 = not set, k = result of the k-th open
  handshakes,   \* handle -> feature reports accepted on it
  opened,       \* the handles open has returned
  ioctlCalls,   \* handle -> feature-report ioctl calls made on it
  threads,      \* polling threads started for the object
  report,       \* what the feature-report ioctl was last called with
  twin,         \* an object of the other file's class, constructed on the same
                \* path and given the same results and the same calls
  values,       \* self._values
  outsideRefs,  \* strong references to the object outside the polling thread
  wpc,          \* polling thread: none, check, read, decode, stopped
  workerSelf,   \* the local `self` of _co2_worker is bound to the object
  wdata,        \* local `data` of the polling thread's read_data
  wfails,       \* consecutive polls whose device read raised (saturating)
  mpc,          \* a caller of the public read_data: idle or decode
  mdata,        \* local `data` of that caller's read_data
  ret,          \* what the last public call returned to its caller
  reads,        \* calls of self._file.read (saturating)
  lastAccepted, \* op -> bytes 0..2 of the last processed read that passed
                \* both tests
  co2Prev       \* get_co2 calls since the last accepted CO2 read, and their result

vars == <<variant, ctor, device, openCalls, errs, handle, handshakes, opened,
          ioctlCalls, threads, report, twin, values,
          outsideRefs, wpc, workerSelf, wdata, wfails, mpc, mdata, ret, reads,
          lastAccepted, co2Prev>>

ctorVars == <<ctor, device, openCalls, errs, handle, handshakes, opened,
              ioctlCalls, threads, report>>
workerVars == <<wpc, workerSelf, wdata, wfails>>
mainVars == <<mpc, mdata, ret>>

InitValues == [k \in KnownOps |-> 0]

InitValuesOf(v) == IF v = "plain" THEN InitValues ELSE InitValuesAdj

(* ------------------- the object of the other class --------------------- *)
\* its __init__ is about to open the same device path
TwinInit(v) ==
  [ctor |-> "open", report |-> <<>>, values |-> InitValuesOf(v), ret |-> NoResult]

\* its first open returned or raised as the first open of the object did
TwinOpen(t, v, ok) ==
  [t EXCEPT !.ctor = IF ok THEN "ioctl" ELSE FirstAttemptRaisesOf(v)]

\* its first ioctl was called, and returned or raised likewise
TwinIoctl(t, v, ok) ==
  [t EXCEPT !.report = SetReportOf(v),
            !.ctor = IF ok THEN "start" ELSE FirstAttemptRaisesOf(v)]

\* its thread.start()
TwinStart(t) == IF t.ctor = "start" THEN [t EXCEPT !.ctor = "done"] ELSE t

\* its polling thread ran lines 67-75 on the same data
TwinPoll(t, v, data) ==
  IF t.ctor = "done"
  THEN [t EXCEPT !.values = ReadDataOf(v, t.values, data).values]
  ELSE t

\* its public read_data got the same data
TwinReadData(t, v, data) ==
  IF t.ctor = "done"
  THEN [t EXCEPT !.values = ReadDataOf(v, t.values, data).values,
                 !.ret = BoolResult(ReadDataOf(v, t.values, data).ret)]
  ELSE t

\* a public call on it returned r
TwinReturn(t, r) == IF t.ctor = "done" THEN [t EXCEPT !.ret = r] ELSE t

\* no get_co2 call has returned since the last accepted CO2 read
NoCo2Call == [calls |-> 0, val |-> 0]

\* __init__ has run lines 41-43 and is about to open the device
Init ==
  /\ variant \in {"plain", "adjust"}
  /\ ctor = "open"
  /\ device = "given"
  /\ openCalls = 0
  /\ errs = 0
  /\ handle = 0
  /\ handshakes = [h \in 1..2 |-> 0]
  /\ opened = {}
  /\ ioctlCalls = [h \in 1..2 |-> 0]
  /\ threads = 0
  /\ report = <<>>
  /\ twin = TwinInit(Other(variant))
  /\ values = InitValuesOf(variant)
  /\ outsideRefs = 1
  /\ wpc = "none"
  /\ workerSelf = FALSE
  /\ wdata = <<>>
  /\ wfails = 0
  /\ mpc = "idle"
  /\ mdata = <<>>
  /\ ret = NoResult
  /\ reads = 0
  /\ lastAccepted = <<>>
  /\ co2Prev = NoCo2Call

(* ----------------------------- construction ---------------------------- *)
\* mutant: the exception is swallowed and __init__ goes on to start the thread
Propagate_Swallow ==
  /\ ctor' = "start"
  /\ outsideRefs' = outsideRefs

\* an exception leaves __init__: the caller gets no object
Propagate ==
  /\ ctor' = "failed"
  /\ outsideRefs' = 0

\* where an exception of the first open/ioctl goes: out of __init__ in
\* CO2MINI.py, into the except clause in CO2MINI_HidrawAdjust.py
FirstAttemptRaises ==
  IF variant = "plain" THEN Propagate
  ELSE ctor' = "find" /\ outsideRefs' = outsideRefs

\* mutant: the feature report is never sent, the thread is started at once
Open_SkipIoctl ==
  /\ ctor = "open"
  /\ openCalls' = openCalls + 1
  /\ \E ok \in BOOLEAN :
       /\ twin' = TwinOpen(twin, Other(variant), ok)
       /\ IF ok
          THEN /\ handle' = openCalls'
               /\ opened' = opened \cup {handle'}
               /\ ctor' = "start"
               /\ UNCHANGED <<errs, outsideRefs>>
          ELSE /\ errs' = errs + 1
               /\ handle' = handle
               /\ opened' = opened
               /\ FirstAttemptRaises
  /\ UNCHANGED <<co2Prev, variant, device, handshakes, ioctlCalls, threads,
                 report, values, workerVars, mainVars, reads, lastAccepted>>

\* self._file = open(device, "a+b", 0)
Open ==
  /\ ctor = "open"
  /\ openCalls' = openCalls + 1
  /\ \E ok \in BOOLEAN :
       /\ twin' = TwinOpen(twin, Other(variant), ok)
       /\ IF ok
          THEN /\ handle' = openCalls'
               /\ opened' = opened \cup {handle'}
               /\ ctor' = "ioctl"
               /\ UNCHANGED <<errs, outsideRefs>>
          ELSE /\ errs' = errs + 1
               /\ handle' = handle
               /\ opened' = opened
               /\ FirstAttemptRaises
  /\ UNCHANGED <<co2Prev, variant, device, handshakes, ioctlCalls, threads,
                 report, values, workerVars, mainVars, reads, lastAccepted>>

\* fcntl.ioctl(self._file, HIDIOCSFEATURE_9, bytearray(set_report))
Ioctl ==
  /\ ctor = "ioctl"
  /\ ioctlCalls' = [ioctlCalls EXCEPT ![handle] = @ + 1]
  /\ report' = SetReportOf(variant)
  /\ \E ok \in BOOLEAN :
       /\ twin' = TwinIoctl(twin, Other(variant), ok)
       /\ IF ok
          THEN /\ handshakes' = [handshakes EXCEPT ![handle] = @ + 1]
               /\ ctor' = "start"
               /\ UNCHANGED <<errs, outsideRefs>>
          ELSE /\ errs' = errs + 1
               /\ handshakes' = handshakes
               /\ FirstAttemptRaises
  /\ UNCHANGED <<co2Prev, variant, device, openCalls, handle, opened, threads,
                 values, workerVars, mainVars, reads, lastAccepted>>

\* d = find_co2_sensor(): a device path, or None when nothing matches
Find ==
  /\ ctor = "find"
  /\ device' \in {"found", "None"}
  /\ ctor' = "open2"
  /\ UNCHANGED <<twin, co2Prev, variant, openCalls, errs, handle, handshakes, opened,
                 ioctlCalls, threads, report, values, outsideRefs, workerVars, mainVars,
                 reads, lastAccepted>>

\* self._file = open(d, "a+b", 0) in the except clause; open(None) raises
Open2 ==
  /\ ctor = "open2"
  /\ openCalls' = openCalls + 1
  /\ \E ok \in (IF device = "None" THEN {FALSE} ELSE BOOLEAN) :
       IF ok
       THEN /\ handle' = openCalls'
            /\ opened' = opened \cup {handle'}
            /\ ctor' = "ioctl2"
            /\ UNCHANGED <<errs, outsideRefs>>
       ELSE /\ errs' = errs + 1
            /\ handle' = handle
            /\ opened' = opened
            /\ Propagate
  /\ UNCHANGED <<twin, co2Prev, variant, device, handshakes, ioctlCalls, threads,
                 report, values, workerVars, mainVars, reads, lastAccepted>>

\* the ioctl of the except clause
Ioctl2 ==
  /\ ctor = "ioctl2"
  /\ ioctlCalls' = [ioctlCalls EXCEPT ![handle] = @ + 1]
  /\ report' = SetReportOf(variant)
  /\ \E ok \in BOOLEAN :
       IF ok
       THEN /\ handshakes' = [handshakes EXCEPT ![handle] = @ + 1]
            /\ ctor' = "start"
            /\ UNCHANGED <<errs, outsideRefs>>
       ELSE /\ errs' = errs + 1
            /\ handshakes' = handshakes
            /\ Propagate
  /\ UNCHANGED <<twin, co2Prev, variant, device, openCalls, handle, opened, threads,
                 values, workerVars, mainVars, reads, lastAccepted>>

\* mutant: a second thread is started on the same object
Start_Twice ==
  /\ ctor = "start"
  /\ ctor' = "done"
  /\ threads' = threads + 2
  /\ wpc' = "check"
  /\ twin' = TwinStart(twin)
  /\ UNCHANGED <<co2Prev, variant, device, openCalls, errs, handle, handshakes,
                 opened, ioctlCalls, report, values,
                 outsideRefs, workerSelf, wdata, wfails, mainVars, reads,
                 lastAccepted>>

\* thread.start(), then __init__ returns the object to its caller
Start ==
  /\ ctor = "start"
  /\ ctor' = "done"
  /\ threads' = threads + 1
  /\ wpc' = "check"
  /\ twin' = TwinStart(twin)
  /\ UNCHANGED <<co2Prev, variant, device, openCalls, errs, handle, handshakes,
                 opened, ioctlCalls, report, values,
                 outsideRefs, workerSelf, wdata, wfails, mainVars, reads,
                 lastAccepted>>

(* ------------------------- outside references -------------------------- *)
\* a holder of the object binds one more name to it
CopyRef ==
  /\ ctor = "done"
  /\ outsideRefs > 0
  /\ outsideRefs < MaxRefs
  /\ outsideRefs' = outsideRefs + 1
  /\ UNCHANGED <<twin, co2Prev, variant, ctorVars, values, workerVars, mainVars, reads,
                 lastAccepted>>

\* a holder drops its reference; a running public read_data call holds one
DropRef ==
  /\ ctor = "done"
  /\ outsideRefs > 0
  /\ mpc = "idle" \/ outsideRefs > 1
  /\ outsideRefs' = outsideRefs - 1
  /\ UNCHANGED <<twin, co2Prev, variant, ctorVars, values, workerVars, mainVars, reads,
                 lastAccepted>>

(* --------------------------- polling thread ---------------------------- *)
\* weak_self() is not None: some strong reference exists. The local `self`
\* of _co2_worker is one: it stays bound from the previous iteration until
\* the assignment of line 24 completes.
Referent(refs, ws) == refs > 0 \/ ws

\* self = weak_self(); if self is None: break
WorkerCheck ==
  /\ wpc = "check"
  /\ IF Referent(outsideRefs, workerSelf)
     THEN wpc' = "read" /\ workerSelf' = TRUE
     ELSE wpc' = "stopped" /\ workerSelf' = FALSE
  /\ UNCHANGED <<twin, co2Prev, variant, ctorVars, values, outsideRefs, wdata, wfails,
                 mainVars, reads, lastAccepted>>

\* the ghost record of the reads that passed both tests of the frame format
Accepted(data) ==
  /\ Len(data) >= 5
  /\ data[5] = 13
  /\ (data[1] + data[2] + data[3]) % 256 = data[4]

Record(last, data) ==
  IF Accepted(data)
  THEN [k \in DOMAIN last \cup {data[1]} |->
          IF k = data[1] THEN Take(data, 3) ELSE last[k]]
  ELSE last

\* an accepted read of the CO2 code starts a new count of get_co2 calls
Forget(prev, data) ==
  IF Accepted(data) /\ data[1] = CO2METER_CO2 THEN NoCo2Call ELSE prev

\* a get_co2 call that returned r
Remember(prev, r) == [calls |-> Min(prev.calls + 1, MaxCalls), val |-> r.num]

\* mutant: read_data has no except clause, a raising read ends the thread
WorkerRead_Uncaught ==
  /\ wpc = "read"
  /\ reads' = Min(reads + 1, MaxReads)
  /\ \E r \in DeviceResults :
       IF r.ok
       THEN wpc' = "decode" /\ wdata' = r.bytes /\ wfails' = 0 /\ workerSelf' = workerSelf
       ELSE wpc' = "stopped" /\ wdata' = <<>> /\ wfails' = wfails /\ workerSelf' = FALSE
  /\ UNCHANGED <<twin, co2Prev, variant, ctorVars, values, outsideRefs, mainVars, lastAccepted>>

\* data = list(self._file.read(8)) in the polling thread
WorkerRead ==
  /\ wpc = "read"
  /\ reads' = Min(reads + 1, MaxReads)
  /\ \E r \in DeviceResults :
       IF r.ok
       THEN wpc' = "decode" /\ wdata' = r.bytes /\ wfails' = 0
       ELSE wpc' = "check" /\ wdata' = <<>> /\ wfails' = Min(wfails + 1, MaxFails)
  /\ UNCHANGED <<twin, co2Prev, variant, ctorVars, values, outsideRefs, workerSelf, mainVars,
                 lastAccepted>>

\* lines 67-75 in the polling thread; the result is discarded (line 27)
WorkerDecode ==
  /\ wpc = "decode"
  /\ values' = ReadDataOf(variant, values, wdata).values
  /\ twin' = TwinPoll(twin, Other(variant), wdata)
  /\ lastAccepted' = Record(lastAccepted, wdata)
  /\ co2Prev' = Forget(co2Prev, wdata)
  /\ wpc' = "check"
  /\ wdata' = <<>>
  /\ UNCHANGED <<variant, ctorVars, outsideRefs, workerSelf, wfails, mainVars,
                 reads>>

(* ------------------------ callers of the object ------------------------ *)
CanCall == ctor = "done" /\ outsideRefs > 0 /\ mpc = "idle"

\* an accessor can be called by any holder of the object, also while another
\* caller is inside read_data
CanGet == ctor = "done" /\ outsideRefs > 0

\* sensor.read_data() as in main: the device read
MainRead ==
  /\ CanCall
  /\ reads' = Min(reads + 1, MaxReads)
  /\ \E r \in DeviceResults :
       IF r.ok
       THEN mpc' = "decode" /\ mdata' = r.bytes /\ ret' = ret /\ twin' = twin
       ELSE /\ mpc' = "idle" /\ mdata' = <<>> /\ ret' = BoolResult(FALSE)
            /\ twin' = TwinReturn(twin, BoolResult(FALSE))
  /\ UNCHANGED <<co2Prev, variant, ctorVars, values, outsideRefs, workerVars,
                 lastAccepted>>

\* sensor.read_data() as in main: lines 67-75
MainDecode ==
  /\ mpc = "decode"
  /\ values' = ReadDataOf(variant, values, mdata).values
  /\ ret' = BoolResult(ReadDataOf(variant, values, mdata).ret)
  /\ twin' = TwinReadData(twin, Other(variant), mdata)
  /\ lastAccepted' = Record(lastAccepted, mdata)
  /\ co2Prev' = Forget(co2Prev, mdata)
  /\ mpc' = "idle"
  /\ mdata' = <<>>
  /\ UNCHANGED <<variant, ctorVars, outsideRefs, workerVars, reads>>

\* mutant: the accessor clears the entry it has read
GetCo2_Clear ==
  /\ CanGet
  /\ ret' = get_co2Of(variant, values)
  /\ twin' = TwinReturn(twin, get_co2Of(Other(variant), twin.values))
  /\ co2Prev' = Remember(co2Prev, ret')
  /\ values' = SetItem(values, CO2METER_CO2, 0)
  /\ UNCHANGED <<variant, ctorVars, outsideRefs, workerVars, mpc, mdata, reads,
                 lastAccepted>>

\* return self._values[CO2METER_CO2]
GetCo2 ==
  /\ CanGet
  /\ ret' = get_co2Of(variant, values)
  /\ twin' = TwinReturn(twin, get_co2Of(Other(variant), twin.values))
  /\ co2Prev' = Remember(co2Prev, ret')
  /\ UNCHANGED <<variant, ctorVars, values, outsideRefs, workerVars, mpc,
                 mdata, reads, lastAccepted>>

\* return self._values[CO2METER_TEMP] / 16.0 - 273.15
GetTemperature ==
  /\ CanGet
  /\ ret' = get_temperatureOf(variant, values)
  /\ twin' = TwinReturn(twin, get_temperatureOf(Other(variant), twin.values))
  /\ UNCHANGED <<co2Prev, variant, ctorVars, values, outsideRefs, workerVars, mpc,
                 mdata, reads, lastAccepted>>

\* return self._values[CO2METER_HUM] / 100.0
GetHumidity ==
  /\ CanGet
  /\ ret' = get_humidityOf(variant, values)
  /\ twin' = TwinReturn(twin, get_humidityOf(Other(variant), twin.values))
  /\ UNCHANGED <<co2Prev, variant, ctorVars, values, outsideRefs, workerVars, mpc,
                 mdata, reads, lastAccepted>>

(* ---------------------------- specification ---------------------------- *)
WorkerNext == WorkerCheck \/ WorkerRead \/ WorkerDecode

Next ==
  \/ Open
  \/ Ioctl
  \/ Find
  \/ Open2
  \/ Ioctl2
  \/ Start
  \/ CopyRef
  \/ DropRef
  \/ WorkerCheck
  \/ WorkerRead
  \/ WorkerDecode
  \/ MainRead
  \/ MainDecode
  \/ GetCo2
  \/ GetTemperature
  \/ GetHumidity

Spec == Init /\ [][Next]_vars

\* the program of CO2MINI.py alone: its __init__ has no except clause, so
\* the steps of the retry do not exist
PlainInit == Init /\ variant = "plain"

PlainNext ==
  \/ Open
  \/ Ioctl
  \/ Start
  \/ CopyRef
  \/ DropRef
  \/ WorkerCheck
  \/ WorkerRead
  \/ WorkerDecode
  \/ MainRead
  \/ MainDecode
  \/ GetCo2
  \/ GetTemperature
  \/ GetHumidity

PlainSpec == PlainInit /\ [][PlainNext]_vars

\* the polling thread is a daemon thread the interpreter keeps scheduling, and
\* every device read returns: each of its steps, once enabled, is taken
FairSpec ==
  PlainSpec /\ WF_vars(WorkerCheck) /\ WF_vars(WorkerRead) /\ WF_vars(WorkerDecode)

(* ------------------------------- claims -------------------------------- *)
\* a step in which the polling thread's self._file.read(8) is called
WorkerReads == wpc = "read" /\ wpc' # "read"

\* C1 (as claimed): once no reference to the object is held outside the
\* polling thread, the thread calls the device read no more and the value
\* map changes no more.
C1_QuietAfterDrop ==
  [][(ctor = "done" /\ outsideRefs = 0) => (~WorkerReads /\ values' = values)]_vars

\* C2 (as claimed): after the last outside reference is dropped the polling
\* thread eventually leaves its loop.
C2_EventuallyStopped ==
  (ctor = "done" /\ outsideRefs = 0) ~> (wpc = "stopped")

\* steps that run lines 67-75 of read_data on the data a read returned
WorkerDecodes == wpc = "decode" /\ wpc' = "check"
MainDecodes == mpc = "decode" /\ mpc' = "idle"

\* the two checksum conditions as the frame format states them
Rejected(d) == d[5] # 13 \/ (d[1] + d[2] + d[3]) % 256 # d[4]

\* C3 (as claimed): every change of the value map is made by a step of the
\* polling thread.
C3_OnlyWorkerWrites == [][values' # values => wpc' # wpc]_vars

\* C3 (amended): every change of the value map is made by the store of
\* read_data, run by the polling thread or by a caller of the public
\* read_data; construction, reference handling and accessors change nothing.
C3_OnlyReadDataWrites == [][values' # values => (WorkerDecodes \/ MainDecodes)]_vars

\* a public read_data call has changed the map: the only device read so far
\* is the caller's
C3_CallerWrote == ret = BoolResult(TRUE) /\ reads = 1 /\ values # InitValues

\* C4: read_data given an 8-byte frame whose byte 4 is not 0x0D or whose
\* checksum byte differs from the low 8 bits of byte0+byte1+byte2 leaves the
\* whole value map as it was.
C4_RejectedFrameWritesNothing ==
  [][/\ (WorkerDecodes /\ Len(wdata) = 8 /\ Rejected(wdata)) => values' = values
     /\ (MainDecodes /\ Len(mdata) = 8 /\ Rejected(mdata)) => values' = values]_vars

\* a public read_data call has processed the only read made so far, got past
\* the length test and stored nothing: the read was a rejected frame
C4_RejectedProcessed ==
  /\ reads = 1
  /\ mpc = "idle"
  /\ ret = BoolResult(TRUE)
  /\ values = InitValues

\* C5: for every operation code, the stored value is byte1 * 256 + byte2 of
\* the most recently processed read with that code that passed both checksum
\* conditions, and 0 for a known code with no such read; codes never
\* accepted and not known are not keys.
C5_LastAcceptedWins ==
  \A op \in DOMAIN values \cup DOMAIN lastAccepted :
    IF op \in DOMAIN lastAccepted
    THEN /\ op \in DOMAIN values
         /\ values[op] = lastAccepted[op][2] * 256 + lastAccepted[op][3]
    ELSE op \in KnownOps /\ values[op] = 0

\* get_co2 reported 0xFFFF earlier and the map now holds 0x0194: a later
\* accepted frame has replaced an earlier one
C5_Replaced ==
  /\ ret = get_co2(SetItem(InitValues, CO2METER_CO2, 65535))
  /\ values[CO2METER_CO2] = 404

\* C6 (as claimed): read_data returns True exactly when a complete frame was
\* read and stored, and False on a read failure, a short read or a checksum
\* failure.
C6_TrueIffStored ==
  [][MainDecodes =>
       (ret' = BoolResult(TRUE) <=> (Len(mdata) = 8 /\ ~Rejected(mdata)))]_vars

\* C7 (as claimed): a read that returns fewer than 8 bytes stores nothing,
\* and read_data returns False for it.
C7_ShortReadFails ==
  [][/\ (WorkerDecodes /\ Len(wdata) # 8) => values' = values
     /\ (MainDecodes /\ Len(mdata) # 8) =>
          (values' = values /\ ret' = BoolResult(FALSE))]_vars

\* C8 (as claimed): once an open or ioctl of the constructor has failed, the
\* construction never completes, no thread exists and no read is made.
C8_AnyFailureFails ==
  errs > 0 => (ctor \notin {"start", "done"} /\ wpc = "none" /\ reads = 0)

\* C8 (amended): a failed open or ioctl fails the construction in
\* CO2MINI.py; in CO2MINI_HidrawAdjust.py the first failure is caught and the
\* construction fails when the open or ioctl on the discovered path fails as
\* well. A failed construction has started no thread and made no read, and
\* its caller holds no object.
C8_FailedConstructionStartsNothing ==
  /\ (variant = "plain" /\ errs > 0) => ctor = "failed"
  /\ (variant = "adjust" /\ errs > 1) => ctor = "failed"
  /\ ctor = "failed" =>
       (wpc = "none" /\ ~workerSelf /\ reads = 0 /\ outsideRefs = 0)

\* the retry of CO2MINI_HidrawAdjust.py has failed too
C8_RetryFailed == ctor = "failed" /\ errs = 2

\* C9: a poll whose device read raises changes no value and leaves the
\* thread in its loop still holding the object, and the step the thread
\* takes after one or more such polls is the liveness check going on to the
\* next read.
C9_FailedPollRetries ==
  [][/\ (wpc = "read" /\ wpc' # "read" /\ wpc' # "decode") =>
          (wpc' = "check" /\ workerSelf' /\ values' = values)
     /\ (wpc = "check" /\ wfails > 0 /\ wpc' # wpc) => wpc' = "read"]_vars

\* the thread is about to read again after MaxFails consecutive failures
C9_RetryingAfterFailures == wpc = "read" /\ wfails = MaxFails

\* C10: the three known operation codes are keys of the value map in every
\* state, no accessor call has raised, and an accessor call makes no device
\* read, writes nothing and completes in its one step.
C10_AccessorsNeverRaise ==
  /\ [](KnownOps \subseteq DOMAIN values /\ ~ret.raised)
  /\ [][(ret' # ret /\ ret'.call # "read_data") =>
          (reads' = reads /\ values' = values /\ mpc' = mpc
           /\ wpc' = wpc)]_vars

\* get_temperature has returned the value of the accepted temperature frame
\* while the map holds a fourth key and the polling thread is inside read_data
C10_AccessorReturned ==
  /\ ret = get_temperature(SetItem(InitValues, CO2METER_TEMP, 4801))
  /\ DOMAIN values # KnownOps
  /\ wpc = "decode"

\* C11: a get_co2 call made after an earlier one, with no read of the CO2 code
\* that passed both checksum conditions processed in between, returns what
\* the earlier one returned, whatever other steps were taken in between.
C11_Co2Idempotent ==
  [][(co2Prev.calls > 0 /\ GetCo2) => (~ret'.raised /\ ret'.num = co2Prev.val)]_vars

\* get_co2 has returned 0x0194 twice or more since the last accepted CO2 read,
\* and a temperature frame has been accepted
C11_CalledAgain ==
  /\ co2Prev.calls >= 2
  /\ co2Prev.val = 404
  /\ values[CO2METER_TEMP] = 4801

\* C12: the feature report is sent at most once on a handle and exactly once
\* on every opened handle whose ioctl statement has been reached, and a
\* device read is made only on a handle whose feature report was accepted.
C12_HandshakeOnceBeforeRead ==
  /\ \A h \in 1..2 :
       /\ ioctlCalls[h] <= 1
       /\ handshakes[h] <= ioctlCalls[h]
       /\ ioctlCalls[h] > 0 => h \in opened
  /\ \A h \in opened :
       (h # handle \/ ctor \notin {"ioctl", "ioctl2"}) => ioctlCalls[h] = 1
  /\ reads > 0 => (handle \in opened /\ handshakes[handle] = 1)

\* CO2MINI_HidrawAdjust.py has opened two handles, the first refused the
\* feature report, and reads are made on the second
C12_ReadAfterRetry ==
  /\ opened = {1, 2}
  /\ handshakes = <<0, 1>>
  /\ handle = 2
  /\ reads > 0

\* C13: an object whose construction has completed has had exactly one
\* polling thread started, whatever that thread has done since, and no
\* thread is started for any other object.
C13_OneThread ==
  /\ ctor = "done" => threads = 1
  /\ ctor # "done" => threads = 0

\* the one thread of the object has left its loop
C13_StoppedNotRestarted == wpc = "stopped" /\ threads = 1

\* C14 (as claimed): whenever the polling thread is at its liveness check it
\* holds no strong reference to the object, and the check of an object with
\* no outside reference ends the loop.
C14_NoStrongRefAtCheck ==
  /\ [](wpc = "check" => ~workerSelf)
  /\ [][(wpc = "check" /\ outsideRefs = 0 /\ wpc' # wpc) => wpc' = "stopped"]_vars

\* C15: the polling thread becomes stopped only by a liveness check made
\* when no strong reference to the object exists, never by a step of
\* read_data whatever was read, and a stopped thread changes nothing more.
C15_StopsOnlyAtCheck ==
  /\ [][(wpc # "stopped" /\ wpc' = "stopped") =>
          (wpc = "check" /\ outsideRefs = 0 /\ ~workerSelf)]_vars
  /\ [][wpc = "stopped" =>
          (wpc' = "stopped" /\ UNCHANGED <<workerSelf, wdata, wfails, values, reads>>)]_vars

\* the thread has stopped, at its first check, after callers of read_data
\* made MaxReads reads and stored a frame of an unknown operation code
C15_StoppedAfterReads ==
  /\ wpc = "stopped"
  /\ reads = MaxReads
  /\ DOMAIN values # KnownOps

\* a complete frame that passes both checksum conditions
AcceptedFrame(d) == Len(d) = 8 /\ ~Rejected(d)

\* the map after the step has byte1 * 256 + byte2 of d under d's operation
\* code, and every other entry as before
StoredOnly(d) ==
  /\ DOMAIN values' = DOMAIN values \cup {d[1]}
  /\ values'[d[1]] = d[2] * 256 + d[3]
  /\ \A k \in DOMAIN values \ {d[1]} : values'[k] = values[k]

\* C16: read_data given a frame that passes both checksum conditions stores
\* its 16-bit value under its operation code, known or not, and changes no
\* other entry of the value map.
C16_StoresUnderItsCodeOnly ==
  [][/\ (WorkerDecodes /\ AcceptedFrame(wdata)) => StoredOnly(wdata)
     /\ (MainDecodes /\ AcceptedFrame(mdata)) => StoredOnly(mdata)]_vars

\* the frame of the unknown code 0x6E is stored next to the values of the
\* CO2 and temperature frames accepted before or after it
C16_UnknownStored ==
  /\ 110 \in DOMAIN values
  /\ values[110] = 7
  /\ values[CO2METER_CO2] = 404
  /\ values[CO2METER_TEMP] = 4801
  /\ values[CO2METER_HUM] = 0

\* the 16-bit value of the last processed read of code op that passed both
\* checksum conditions, 0 when there is none
AcceptedValue(op) ==
  IF op \in DOMAIN lastAccepted
  THEN lastAccepted[op][2] * 256 + lastAccepted[op][3]
  ELSE 0

\* C17: whatever the polling thread and a caller of read_data are doing, the
\* raw value an accessor call observes is 0 or the whole 16-bit value of one
\* accepted read of its code (the last one processed), and the call does
\* not raise.
C17_AccessorSeesWholeValue ==
  [][/\ GetCo2 => (~ret'.raised /\ ret'.num = AcceptedValue(CO2METER_CO2))
     /\ GetTemperature =>
          (~ret'.raised /\ ret'.num = 100 * AcceptedValue(CO2METER_TEMP) - 437040)
     /\ GetHumidity => (~ret'.raised /\ ret'.num = AcceptedValue(CO2METER_HUM))]_vars

\* get_co2 has returned 0x0194 and both the polling thread and a caller of
\* read_data are inside read_data, each with a CO2 frame of another value
C17_ObservedBetweenStores ==
  /\ ret.call = "get_co2"
  /\ ret.num = 404
  /\ values[CO2METER_CO2] = 404
  /\ wpc = "decode"
  /\ wdata = WellFormed(CO2METER_CO2, 255, 255)
  /\ mpc = "decode"
  /\ mdata \in CorruptFrames

\* C18: every value of the value map is an integer in 0..65535, and no step
\* removes a key: the key set starts as the three known codes and only grows.
C18_ValuesInRangeKeysGrow ==
  /\ [](\A k \in DOMAIN values : values[k] \in 0..65535)
  /\ [](KnownOps \subseteq DOMAIN values)
  /\ [][DOMAIN values \subseteq DOMAIN values']_vars

\* the key set has grown and the largest 16-bit value is stored
C18_GrownMap ==
  /\ DOMAIN values = KnownOps \cup {110}
  /\ values[CO2METER_CO2] = 65535

\* C19: as long as no open or ioctl of the constructor has raised, the
\* object of CO2MINI_HidrawAdjust.py and the object of CO2MINI.py, given the
\* same results and calls, are at the same place of __init__, have sent the
\* same feature report, hold the same value map and have returned the same
\* result; once the first open or ioctl has raised, the CO2MINI.py object has
\* failed and the CO2MINI_HidrawAdjust.py object has gone on to the retry.
C19_VariantsEquivalent ==
  /\ errs = 0 =>
       /\ twin.ctor = ctor
       /\ twin.report = report
       /\ twin.values = values
       /\ twin.ret = ret
  /\ (errs > 0 /\ variant = "plain") => (ctor = "failed" /\ twin.ctor = "find")
  /\ (errs > 0 /\ variant = "adjust") =>
       (twin.ctor = "failed" /\ ctor \notin {"open", "ioctl"})
  /\ (errs = 1 /\ variant = "adjust") => ctor # "failed"

\* the object of CO2MINI_HidrawAdjust.py, constructed without a failure, has
\* sent the feature report, stored a CO2 frame whose byte sum exceeds 8 bits
\* and a frame of an unknown code, and returned from get_temperature; the
\* object of CO2MINI.py has done the same
C19_BothStoredAndReturned ==
  /\ variant = "adjust"
  /\ errs = 0
  /\ report = [request |-> <<192, 9, 72, 6>>,
               payload |-> <<0, 196, 198, 192, 146, 64, 35, 220, 150>>]
  /\ twin.report = report
  /\ values[CO2METER_CO2] = 65535
  /\ 110 \in DOMAIN values
  /\ twin.values = values
  /\ ret.call = "get_temperature"
  /\ twin.ret = ret

====
